---------------------------- MODULE Spec2Model ----------------------------
(***************************************************************************)
(* Model of BfvParameters::new (src/src/lib.rs): prime selection, the      *)
(* level chain, and the encryption / decryption pre-computation tables.    *)
(*                                                                         *)
(* The constructor is one sequential computation; pc is its position.      *)
(* A Rust panic (assert!, unwrap on None, BigUint underflow, division by   *)
(* zero) ends the computation with result = "panic" and the line that      *)
(* raised it in panic_line.  The function's return type is BfvParameters,  *)
(* so the only other outcome is result = "ok".                             *)
(*                                                                         *)
(* nb_theory::generate_prime and poly::{PolyContext, Poly} are modules of  *)
(* the crate whose files are not part of the sources; they are modelled    *)
(* from their documented interface.  All integers stay far below 2^63 at   *)
(* the bounds used here, so u64 wrap-around does not arise.                *)
(***************************************************************************)
EXTENDS Integers, Sequences, FiniteSets, TLC

\* ---- bounds of the explored input space ----
MaxLevels == 2
MaxBitSize == 5
MaxT == 7
MaxDegree == 4

VARIABLES
    ciphertext_moduli_sizes,      \* argument: requested bit sizes
    plaintext_modulus,            \* argument: t
    polynomial_degree,            \* argument: N
    pc,                           \* position in BfvParameters::new
    k,                            \* index of the size the for_each is at (1-based)
    upper_bound,                  \* local of the prime loop
    ciphertext_moduli,            \* accepted primes
    poly_contexts,                \* level contexts
    lvl,                          \* index of the level a loop is at (1-based)
    ql_modt,
    neg_t_inv_modql,
    b,                            \* max_bit_size_by2
    t_qlhat_inv_modql_divql_modt,
    t_bqlhat_inv_modql_divql_modt,
    t_qlhat_inv_modql_divql_frac,
    t_bqlhat_inv_modql_divql_frac,
    result,                       \* "running" | "ok" | "panic"
    panic_line,                   \* source line of the panic, 0 if none
    queries,                      \* history: generate_prime calls for the current size
    total_queries,                \* history: generate_prime calls so far
    returned_largest              \* history: every reply so far was the largest candidate

vars == <<ciphertext_moduli_sizes, plaintext_modulus, polynomial_degree, pc, k,
          upper_bound, ciphertext_moduli, poly_contexts, lvl, ql_modt,
          neg_t_inv_modql, b, t_qlhat_inv_modql_divql_modt,
          t_bqlhat_inv_modql_divql_modt, t_qlhat_inv_modql_divql_frac,
          t_bqlhat_inv_modql_divql_frac, result, panic_line, queries,
          total_queries, returned_largest>>

\* ------------------------------------------------------------------------
\* Arithmetic helpers
\* ------------------------------------------------------------------------
RECURSIVE Pow2(_)
Pow2(n) == IF n = 0 THEN 1 ELSE 2 * Pow2(n - 1)

RECURSIVE Product(_)
Product(s) == IF s = <<>> THEN 1 ELSE Head(s) * Product(Tail(s))

RECURSIVE MaxOf(_)
MaxOf(s) == IF Len(s) = 1 THEN s[1]
            ELSE LET m == MaxOf(Tail(s)) IN IF s[1] > m THEN s[1] ELSE m

SetMax(S) == CHOOSE x \in S : \A y \in S : y <= x

Range(s) == {s[j] : j \in 1..Len(s)}

RECURSIVE ModPow(_, _, _)
ModPow(x, e, q) == IF e = 0 THEN 1 % q ELSE (x * ModPow(x, e - 1, q)) % q

\* extended Euclid: <<d, x>> with a*x = d = gcd(a, c) modulo c
RECURSIVE EuclidLoop(_, _, _, _)
EuclidLoop(a, c, x0, x1) ==
    IF c = 0 THEN <<a, x0>>
    ELSE EuclidLoop(c, a % c, x1, x0 - (a \div c) * x1)

ExtendedGcd(a, c) == EuclidLoop(a, c, 1, 0)

\* ModInverse::mod_inverse: <<>> is None, <<x>> is Some(x)
ModInverse(g, n) ==
    LET e == ExtendedGcd(g, n)
    IN  IF e[1] # 1 THEN <<>>
        ELSE IF e[2] < 0 THEN <<e[2] + n>> ELSE <<e[2]>>

\* ------------------------------------------------------------------------
\* nb_theory::generate_prime (interface)
\* ------------------------------------------------------------------------
IsPrime(p) == p >= 2 /\ \A d \in 2..(p - 1) : p % d # 0

\* the primes generate_prime(size, modulo, bound) may return
GeneratePrimeCandidates(size, modulo, bound) ==
    {p \in Pow2(size - 1)..(Pow2(size) - 1) :
        p < bound /\ IsPrime(p) /\ p % modulo = 1}

\* ------------------------------------------------------------------------
\* poly::PolyContext and poly::Poly (interface)
\* ------------------------------------------------------------------------
PolyContextNew(moduli, degree) == [moduli |-> moduli, degree |-> degree]

Modulus(ctx) == Product(ctx.moduli)

HasOrder(x, n, q) ==
    /\ ModPow(x, n, q) = 1
    /\ \A d \in 1..(n - 1) : ModPow(x, d, q) # 1

\* least element of multiplicative order exactly 2*degree modulo q
PrimitiveRoot(q, degree) ==
    CHOOSE x \in 1..(q - 1) :
        /\ HasOrder(x, 2 * degree, q)
        /\ \A y \in 1..(x - 1) : ~ HasOrder(y, 2 * degree, q)

RECURSIVE SumTo(_, _)
SumTo(f, n) == IF n = 0 THEN 0 ELSE f[n] + SumTo(f, n - 1)

\* sum over n of row[n] * x^(n-1) modulo q
EvalAt(row, x, q) ==
    SumTo([n \in 1..Len(row) |-> (row[n] * ModPow(x, n - 1, q)) % q], Len(row)) % q

TransformWith(row, psi, q) ==
    [j \in 1..Len(row) |-> EvalAt(row, ModPow(psi, 2 * (j - 1) + 1, q), q)]

\* negacyclic transform of one residue row: values at psi^(2j+1), j = 0..N-1
ForwardTransform(row, q, degree) == TransformWith(row, PrimitiveRoot(q, degree), q)

InverseWith(row, psi, q) ==
    LET degree == Len(row)
        psiInv == ModPow(psi, 2 * degree - 1, q)
        nInv   == ModInverse(degree % q, q)[1]
    IN  [n \in 1..degree |->
            (nInv * (SumTo([j \in 1..degree |->
                      (row[j] * ModPow(psiInv, (2 * (j - 1) + 1) * (n - 1), q)) % q],
                  degree) % q)) % q]

\* inverse of ForwardTransform
InverseTransform(row, q, degree) == InverseWith(row, PrimitiveRoot(q, degree), q)

\* Poly::try_convert_from_biguint: the values are the leading coefficients,
\* reduced modulo each prime of the context; the remaining ones are zero
TryConvertFromBiguint(values, ctx, representation) ==
    [representation |-> representation,
     coefficients |->
        [m \in 1..Len(ctx.moduli) |->
            [n \in 1..ctx.degree |->
                IF n <= Len(values) THEN values[n] % ctx.moduli[m] ELSE 0]]]

\* Poly::change_representation
ChangeRepresentation(poly, ctx, to) ==
    IF poly.representation = to THEN poly
    ELSE [representation |-> to,
          coefficients |->
            [m \in 1..Len(ctx.moduli) |->
                IF to = "Evaluation"
                THEN ForwardTransform(poly.coefficients[m], ctx.moduli[m], ctx.degree)
                ELSE InverseTransform(poly.coefficients[m], ctx.moduli[m], ctx.degree)]]

\* ------------------------------------------------------------------------
\* Expressions of BfvParameters::new
\* ------------------------------------------------------------------------
\* faulty variant: the bound is taken one too low
InitialUpperBound_OffByOne(size) == Pow2(size) - 1

\* let mut upper_bound = 1u64 << size;
InitialUpperBound(size) == Pow2(size)

\* faulty variant: the membership test is left out
Contains_Never(moduli, prime) == FALSE

\* ciphertext_moduli.contains(&prime)
Contains(moduli, prime) == \E j \in 1..Len(moduli) : moduli[j] = prime

\* faulty variant: the bound is not tightened
NextUpperBound_Keep(prime, bound) == bound

\* upper_bound = prime;
NextUpperBound(prime, bound) == prime

\* faulty variant: the slice is taken from the other end
ModuliAtLevel_Suffix(moduli, i) == SubSeq(moduli, i + 1, Len(moduli))

\* ciphertext_moduli[..moduli_count - i].to_vec(), i counted from 0
ModuliAtLevel(moduli, i) == SubSeq(moduli, 1, Len(moduli) - i)

\* faulty variant: one prime of the level instead of the product
QlModT_LastModulus(ctx, t) == ctx.moduli[Len(ctx.moduli)] % t

\* (q % plaintext_modulus).to_u64().unwrap()
QlModT(ctx, t) == Modulus(ctx) % t

\* faulty variant: the first size instead of the largest
MaxBitSizeBy2_First(sizes) == sizes[1] \div 2

\* ciphertext_moduli_sizes.iter().max().unwrap() / 2
MaxBitSizeBy2(sizes) == MaxOf(sizes) \div 2

\* (&ql_dig / qi).mod_inverse(BigUintDig::from(*qi))
QiHatInv(ctx, qi) == ModInverse(Modulus(ctx) \div qi, qi)

\* (((&qihat_inv * plaintext_modulus) / qi) % plaintext_modulus)
Rational(qihat_inv, t, qi) == ((qihat_inv * t) \div qi) % t

\* (((((&qihat_inv * (1u64 << b)) % qi) * plaintext_modulus) / qi) % plaintext_modulus)
BRational(qihat_inv, shift, t, qi) ==
    ((((qihat_inv * Pow2(shift)) % qi) * t) \div qi) % t

\* the f64 quotients are kept exactly, as <<numerator, denominator>>
Fractional(qihat_inv, t, qi) == <<(qihat_inv * t) % qi, qi>>

BFractional(qihat_inv, shift, t, qi) ==
    <<(((qihat_inv * Pow2(shift)) % qi) * t) % qi, qi>>

\* ------------------------------------------------------------------------
\* Initial state: the call BfvParameters::new(sizes, t, degree)
\* ------------------------------------------------------------------------
BitSizes == 2..MaxBitSize

SizeLists == UNION {[1..n -> BitSizes] : n \in 0..MaxLevels}

Init ==
    /\ ciphertext_moduli_sizes \in SizeLists
    /\ plaintext_modulus \in 0..MaxT
    /\ polynomial_degree \in 1..MaxDegree
    /\ pc = "for_each"
    /\ k = 1
    /\ upper_bound = 0
    /\ ciphertext_moduli = <<>>
    /\ poly_contexts = <<>>
    /\ lvl = 0
    /\ ql_modt = <<>>
    /\ neg_t_inv_modql = <<>>
    /\ b = 0
    /\ t_qlhat_inv_modql_divql_modt = <<>>
    /\ t_bqlhat_inv_modql_divql_modt = <<>>
    /\ t_qlhat_inv_modql_divql_frac = <<>>
    /\ t_bqlhat_inv_modql_divql_frac = <<>>
    /\ result = "running"
    /\ panic_line = 0
    /\ queries = 0
    /\ total_queries = 0
    /\ returned_largest = TRUE

inputs == <<ciphertext_moduli_sizes, plaintext_modulus, polynomial_degree>>
tables == <<ql_modt, neg_t_inv_modql, b, t_qlhat_inv_modql_divql_modt,
            t_bqlhat_inv_modql_divql_modt, t_qlhat_inv_modql_divql_frac,
            t_bqlhat_inv_modql_divql_frac>>
history == <<queries, total_queries, returned_largest>>

Panic(line) == /\ pc' = "done"
               /\ result' = "panic"
               /\ panic_line' = line

\* ------------------------------------------------------------------------
\* Prime generation (lines 44-62)
\* ------------------------------------------------------------------------
\* the closure is entered for the next size
BeginSize ==
    /\ pc = "for_each"
    /\ k <= Len(ciphertext_moduli_sizes)
    /\ upper_bound' = InitialUpperBound(ciphertext_moduli_sizes[k])
    /\ queries' = 0
    /\ pc' = "loop"
    /\ UNCHANGED <<inputs, k, ciphertext_moduli, poly_contexts, lvl, tables,
                   result, panic_line, total_queries, returned_largest>>

Candidates ==
    GeneratePrimeCandidates(ciphertext_moduli_sizes[k], 2 * polynomial_degree,
                            upper_bound)

\* the guard keeps the history counters finite
QueryAllowed == queries <= MaxLevels + 2

Asked(prime) ==
    /\ queries' = queries + 1
    /\ total_queries' = total_queries + 1
    /\ returned_largest' = (returned_largest /\ prime = SetMax(Candidates))

\* Some(prime), not yet in ciphertext_moduli: push and break
AcceptPrime ==
    /\ pc = "loop"
    /\ QueryAllowed
    /\ \E prime \in Candidates :
          /\ ~ Contains(ciphertext_moduli, prime)
          /\ ciphertext_moduli' = Append(ciphertext_moduli, prime)
          /\ Asked(prime)
    /\ k' = k + 1
    /\ pc' = "for_each"
    /\ UNCHANGED <<inputs, upper_bound, poly_contexts, lvl, tables, result,
                   panic_line>>

\* Some(prime), already in ciphertext_moduli: tighten the bound and loop
RetryDuplicate ==
    /\ pc = "loop"
    /\ QueryAllowed
    /\ \E prime \in Candidates :
          /\ Contains(ciphertext_moduli, prime)
          /\ upper_bound' = NextUpperBound(prime, upper_bound)
          /\ Asked(prime)
    /\ UNCHANGED <<inputs, pc, k, ciphertext_moduli, poly_contexts, lvl, tables,
                   result, panic_line>>

\* None: assert!(false)
NotEnoughPrimes ==
    /\ pc = "loop"
    /\ QueryAllowed
    /\ Candidates = {}
    /\ queries' = queries + 1
    /\ total_queries' = total_queries + 1
    /\ Panic(59)
    /\ UNCHANGED <<inputs, k, upper_bound, ciphertext_moduli, poly_contexts, lvl,
                   tables, returned_largest>>

\* the for_each over the sizes is exhausted
EndSizes ==
    /\ pc = "for_each"
    /\ k > Len(ciphertext_moduli_sizes)
    /\ pc' = "contexts"
    /\ lvl' = 0
    /\ UNCHANGED <<inputs, k, upper_bound, ciphertext_moduli, poly_contexts,
                   tables, result, panic_line, history>>

\* ------------------------------------------------------------------------
\* Level contexts (lines 64-73); lvl is the loop variable i
\* ------------------------------------------------------------------------
CreateContext ==
    /\ pc = "contexts"
    /\ lvl < Len(ciphertext_moduli)
    /\ poly_contexts' =
          Append(poly_contexts,
                 PolyContextNew(ModuliAtLevel(ciphertext_moduli, lvl),
                                polynomial_degree))
    /\ lvl' = lvl + 1
    /\ UNCHANGED <<inputs, pc, k, upper_bound, ciphertext_moduli, tables, result,
                   panic_line, history>>

EndContexts ==
    /\ pc = "contexts"
    /\ lvl >= Len(ciphertext_moduli)
    /\ pc' = "encryption"
    /\ lvl' = 1
    /\ UNCHANGED <<inputs, k, upper_bound, ciphertext_moduli, poly_contexts,
                   tables, result, panic_line, history>>

\* ------------------------------------------------------------------------
\* Encryption pre-computation (lines 75-101), one closure call per level
\* ------------------------------------------------------------------------
\* [(-t)^-1]_Q as a Poly in Evaluation representation (lines 94-99)
NegTInvPoly(value, ctx) ==
    ChangeRepresentation(TryConvertFromBiguint(<<value>>, ctx, "Coefficient"),
                         ctx, "Evaluation")

EncryptLevel ==
    /\ pc = "encryption"
    /\ lvl <= Len(poly_contexts)
    /\ LET ctx == poly_contexts[lvl]
           q   == Modulus(ctx)
           t   == plaintext_modulus
       IN  IF t = 0
           THEN \* q % 0
                /\ Panic(83)
                /\ UNCHANGED <<lvl, tables>>
           ELSE /\ ql_modt' = Append(ql_modt, QlModT(ctx, t))
                /\ IF t > q
                   THEN \* &q_dig - plaintext_modulus underflows
                        /\ Panic(87)
                        /\ UNCHANGED <<lvl, neg_t_inv_modql>>
                   ELSE IF ModInverse(q - t, q) = <<>>
                   THEN \* mod_inverse(..) is None, unwrap()
                        /\ Panic(89)
                        /\ UNCHANGED <<lvl, neg_t_inv_modql>>
                   ELSE /\ neg_t_inv_modql' =
                              Append(neg_t_inv_modql,
                                     NegTInvPoly(ModInverse(q - t, q)[1], ctx))
                        /\ lvl' = lvl + 1
                        /\ UNCHANGED <<pc, result, panic_line>>
                /\ UNCHANGED <<b, t_qlhat_inv_modql_divql_modt,
                               t_bqlhat_inv_modql_divql_modt,
                               t_qlhat_inv_modql_divql_frac,
                               t_bqlhat_inv_modql_divql_frac>>
    /\ UNCHANGED <<inputs, k, upper_bound, ciphertext_moduli, poly_contexts,
                   history>>

\* the encryption loop is exhausted; line 105 computes the shift
ComputeShift ==
    /\ pc = "encryption"
    /\ lvl > Len(poly_contexts)
    /\ IF ciphertext_moduli_sizes = <<>>
       THEN \* max() is None, unwrap()
            /\ Panic(105)
            /\ UNCHANGED <<b, lvl>>
       ELSE /\ b' = MaxBitSizeBy2(ciphertext_moduli_sizes)
            /\ pc' = "decryption"
            /\ lvl' = 1
            /\ UNCHANGED <<result, panic_line>>
    /\ UNCHANGED <<inputs, k, upper_bound, ciphertext_moduli, poly_contexts,
                   ql_modt, neg_t_inv_modql, t_qlhat_inv_modql_divql_modt,
                   t_bqlhat_inv_modql_divql_modt, t_qlhat_inv_modql_divql_frac,
                   t_bqlhat_inv_modql_divql_frac, history>>

\* ------------------------------------------------------------------------
\* Decryption pre-computation (lines 103-157), one closure call per level
\* ------------------------------------------------------------------------
DecryptLevel ==
    /\ pc = "decryption"
    /\ lvl <= Len(poly_contexts)
    /\ LET ctx == poly_contexts[lvl]
           t   == plaintext_modulus
           m   == Len(ctx.moduli)
           inv == [i \in 1..m |-> QiHatInv(ctx, ctx.moduli[i])]
       IN  IF \E i \in 1..m : inv[i] = <<>>
           THEN \* mod_inverse(..) is None, unwrap()
                /\ Panic(124)
                /\ UNCHANGED <<lvl, t_qlhat_inv_modql_divql_modt,
                               t_bqlhat_inv_modql_divql_modt,
                               t_qlhat_inv_modql_divql_frac,
                               t_bqlhat_inv_modql_divql_frac>>
           ELSE /\ t_qlhat_inv_modql_divql_modt' =
                      Append(t_qlhat_inv_modql_divql_modt,
                             [i \in 1..m |-> Rational(inv[i][1], t, ctx.moduli[i])])
                /\ t_bqlhat_inv_modql_divql_modt' =
                      Append(t_bqlhat_inv_modql_divql_modt,
                             [i \in 1..m |-> BRational(inv[i][1], b, t, ctx.moduli[i])])
                /\ t_qlhat_inv_modql_divql_frac' =
                      Append(t_qlhat_inv_modql_divql_frac,
                             [i \in 1..m |-> Fractional(inv[i][1], t, ctx.moduli[i])])
                /\ t_bqlhat_inv_modql_divql_frac' =
                      Append(t_bqlhat_inv_modql_divql_frac,
                             [i \in 1..m |-> BFractional(inv[i][1], b, t, ctx.moduli[i])])
                /\ lvl' = lvl + 1
                /\ UNCHANGED <<pc, result, panic_line>>
    /\ UNCHANGED <<inputs, k, upper_bound, ciphertext_moduli, poly_contexts,
                   ql_modt, neg_t_inv_modql, b, history>>

\* the struct is assembled and returned (lines 159-171)
Return ==
    /\ pc = "decryption"
    /\ lvl > Len(poly_contexts)
    /\ pc' = "done"
    /\ result' = "ok"
    /\ UNCHANGED <<inputs, k, upper_bound, ciphertext_moduli, poly_contexts, lvl,
                   tables, panic_line, history>>

Next ==
    \/ BeginSize
    \/ AcceptPrime
    \/ RetryDuplicate
    \/ NotEnoughPrimes
    \/ EndSizes
    \/ CreateContext
    \/ EndContexts
    \/ EncryptLevel
    \/ ComputeShift
    \/ DecryptLevel
    \/ Return

Spec == Init /\ [][Next]_vars

\* the constructor is straight-line code: it keeps running until it returns
\* or panics
FairSpec == Spec /\ WF_vars(Next)

TypeOK ==
    /\ pc \in {"for_each", "loop", "contexts", "encryption", "decryption", "done"}
    /\ result \in {"running", "ok", "panic"}
    /\ (pc = "done") = (result # "running")
    /\ (result = "panic") = (panic_line # 0)

\* ------------------------------------------------------------------------
\* Reference notions used by the properties
\* ------------------------------------------------------------------------
L == Len(ciphertext_moduli_sizes)

\* product of the first n accepted primes
RECURSIVE PrefixProduct(_)
PrefixProduct(n) == IF n = 0 THEN 1 ELSE ciphertext_moduli[n] * PrefixProduct(n - 1)

\* Q of level i (levels counted from 1): the first L - i + 1 accepted primes
LevelQ(i) == PrefixProduct(Len(ciphertext_moduli) - i + 1)

RECURSIVE Gcd(_, _)
Gcd(x, y) == IF y = 0 THEN x ELSE Gcd(y, x % y)

IsPowerOfTwo(n) == \E e \in 0..n : Pow2(e) = n

\* every prime of the requested size that is 1 modulo 2 * degree
Qualifying(size) ==
    {p \in Pow2(size - 1)..(Pow2(size) - 1) :
        IsPrime(p) /\ p % (2 * polynomial_degree) = 1}

\* the integer whose residues modulo the primes are r (CRT)
CrtLift(r, moduli) ==
    LET Q == Product(moduli)
    IN  SumTo([m \in 1..Len(moduli) |->
                  ((r[m] * ModInverse((Q \div moduli[m]) % moduli[m], moduli[m])[1])
                       % moduli[m]) * (Q \div moduli[m])],
              Len(moduli)) % Q

\* a stored constant Poly read back as an integer
ReadBack(poly, ctx) ==
    LET c == ChangeRepresentation(poly, ctx, "Coefficient")
    IN  CrtLift([m \in 1..Len(ctx.moduli) |-> c.coefficients[m][1]], ctx.moduli)

\* ------------------------------------------------------------------------
\* Properties
\* ------------------------------------------------------------------------

\* C1: after new succeeds on L sizes there are L levels, and level i (from 0)
\* holds exactly the first L - i accepted primes in generation order, so each
\* level's modulus set strictly contains the next level's.
C1_LevelsArePrefixes ==
    result = "ok" =>
        /\ Len(ciphertext_moduli) = L
        /\ Len(poly_contexts) = L
        /\ \A i \in 0..(L - 1) :
              LET ms == poly_contexts[i + 1].moduli
              IN  /\ Len(ms) = L - i
                  /\ \A j \in 1..(L - i) : ms[j] = ciphertext_moduli[j]
                  /\ i + 1 < L =>
                        /\ Range(poly_contexts[i + 2].moduli) \subseteq Range(ms)
                        /\ Range(poly_contexts[i + 2].moduli) # Range(ms)

C1_Witness ==
    /\ result = "ok"
    /\ L = 2
    /\ poly_contexts[1].moduli = ciphertext_moduli
    /\ poly_contexts[2].moduli = <<ciphertext_moduli[1]>>

\* C2: at every point of the prime loop and afterwards the accepted primes
\* are pairwise distinct, whatever the oracle returns within its interface.
C2_PrimesDistinct ==
    \A i, j \in 1..Len(ciphertext_moduli) :
        i # j => ciphertext_moduli[i] # ciphertext_moduli[j]

\* a duplicate was returned for the second size and another prime accepted
C2_Witness ==
    /\ Len(ciphertext_moduli) = 2
    /\ ciphertext_moduli_sizes[1] = ciphertext_moduli_sizes[2]
    /\ queries >= 2
    /\ upper_bound = ciphertext_moduli[1]

\* C3: when the oracle returns none, construction ends with an
\* InsufficientPrimes failure handed back to the caller, not with a panic.
C3_ExhaustionIsReturnedError ==
    (pc = "done" /\ k <= L) => result = "InsufficientPrimes"

\* C4: when t shares a factor with the modulus product of some level,
\* construction ends with a NonInvertible failure handed back to the caller.
C4_NonInvertibleIsReturnedError ==
    (/\ pc = "done"
     /\ L > 0
     /\ Len(poly_contexts) = L
     /\ \E i \in 1..L : Gcd(plaintext_modulus, LevelQ(i)) # 1)
        => result = "NonInvertible"

\* C5: a degree that is no power of two, an empty size list or t <= 1 is
\* rejected with InvalidConfiguration before the first oracle query.
InvalidConfiguration ==
    \/ ~ IsPowerOfTwo(polynomial_degree)
    \/ ciphertext_moduli_sizes = <<>>
    \/ plaintext_modulus <= 1

C5_InvalidConfigurationRejectedFirst ==
    InvalidConfiguration =>
        /\ total_queries = 0
        /\ pc = "done" => result = "InvalidConfiguration"

\* C6: for every t coprime to each level's Q, smaller or larger than Q, the
\* parameter set is built and each stored neg_t_inv_modql, an Evaluation
\* Poly, reads back as x with x * ((Q - t) mod Q) = 1 (mod Q).
C6_NegTInvRelation ==
    (/\ pc = "done"
     /\ L > 0
     /\ Len(poly_contexts) = L
     /\ \A i \in 1..L : Gcd(plaintext_modulus, LevelQ(i)) = 1)
        => /\ result = "ok"
           /\ \A i \in 1..L :
                 LET Q == LevelQ(i)
                     x == ReadBack(neg_t_inv_modql[i], poly_contexts[i])
                 IN  /\ neg_t_inv_modql[i].representation = "Evaluation"
                     /\ (x * ((Q - (plaintext_modulus % Q)) % Q)) % Q = 1 % Q

\* whenever a parameter set is returned, the relation of C6 holds at every
\* level (these are the runs with t below every level's Q)
C6_RelationWhenBuilt ==
    result = "ok" =>
        \A i \in 1..L :
            LET Q == LevelQ(i)
                x == ReadBack(neg_t_inv_modql[i], poly_contexts[i])
            IN  /\ plaintext_modulus <= Q
                /\ neg_t_inv_modql[i].representation = "Evaluation"
                /\ (x * ((Q - (plaintext_modulus % Q)) % Q)) % Q = 1 % Q

Variant ==
    CASE pc = "for_each"   -> (L - k + 1) * (L + 3) + 3 * L + 4
      [] pc = "loop"       -> (L - k) * (L + 3) + (L + 2 - queries) + 3 * L + 4
      [] pc = "contexts"   -> (L - lvl) + 2 * L + 3
      [] pc = "encryption" -> (L - lvl + 1) + L + 2
      [] pc = "decryption" -> (L - lvl + 1) + 1
      [] OTHER             -> 0

C9_QueriesBounded ==
    queries <= IF pc = "loop" \/ panic_line = 59
               THEN Len(ciphertext_moduli) + 1
               ELSE Len(ciphertext_moduli)

C9_RetryLowersBound ==
    (pc = "loop" /\ pc' = "loop" /\ queries' > queries) => upper_bound' < upper_bound

\* C9: every retry strictly lowers upper_bound, the loop for a size issues
\* at most (accepted primes + 1) oracle queries, and the constructor always
\* comes to an end (returns or fails): the query loop is never cut short
\* by the cap on the history counters (every other position always has a
\* step), and every step lowers a natural-valued bound on the steps left.
C9_BoundedSearchTerminates ==
    /\ []C9_QueriesBounded
    /\ [](Variant \in Nat)
    /\ [](pc = "loop" => QueryAllowed)
    /\ [][C9_RetryLowersBound /\ Variant' < Variant]_vars

\* a size finished after the largest possible number of queries
C9_Witness ==
    /\ pc = "done"
    /\ Len(ciphertext_moduli) >= 1
    /\ queries = Len(ciphertext_moduli) + 1
    /\ queries >= 2

\* C10 as stated: for any oracle within the interface, the loop for a size
\* fails only when every qualifying prime of that size is already accepted.
C10_FailsOnlyWhenExhausted ==
    panic_line = 59 =>
        Qualifying(ciphertext_moduli_sizes[k]) \subseteq Range(ciphertext_moduli)

\* C10 amended: the same, for an oracle that always returns the largest
\* qualifying prime below the bound.
C10_FailsOnlyWhenExhaustedLargest ==
    (panic_line = 59 /\ returned_largest) =>
        Qualifying(ciphertext_moduli_sizes[k]) \subseteq Range(ciphertext_moduli)

\* the loop failed after walking down through accepted primes only
C10_Witness ==
    /\ panic_line = 59
    /\ returned_largest
    /\ queries >= 2
    /\ Qualifying(ciphertext_moduli_sizes[k]) # {}

=============================================================================
